---- MODULE Spec2Model ----
(***************************************************************************)
(* MonCacheOnReadFs (package afero): a caching union of two file systems,  *)
(* a "base" and a "layer", with a freshness window (cacheTime) and an      *)
(* fsnotify watcher goroutine.  The model follows monCacheOnReadFs.go      *)
(* handler by handler.  The Fs primitives of base and layer, copyToLayer   *)
(* and UnionFile live outside that file and are modelled from their        *)
(* contract.                                                               *)
(***************************************************************************)
EXTENDS Integers, Sequences, FiniteSets, TLC

\* ------------------------------------------------------------ bounds
MaxTime == 2        \* the clock runs over 0..MaxTime
MaxData == 2        \* file contents written are 1..MaxData; 0 is the empty file
MaxCacheTime == 1   \* cacheTime is drawn from 0..MaxCacheTime
MaxEvents == 2      \* events that fsnotify holds undelivered

Times == 0..MaxTime
Data == 1..MaxData
Modes == {0, 1}     \* two permission settings; 0 is what Create/promotion give

\* ------------------------------------------------------------ names
Root == "/"
FileNames == {"/a", "/b"}
DirNames == {"/d", "/d/e"}
Names == FileNames \cup DirNames
Parent(name) == IF name = "/d/e" THEN "/d" ELSE Root

\* ------------------------------------------------------------ state
VARIABLES
    base,       \* u.base : name -> entry
    layer,      \* u.layer: name -> entry
    cacheTime,  \* u.cacheTime
    now,        \* time.Now()
    fault,      \* which store, if any, currently fails its calls
    errStyle,   \* how the stores report errnos: bare, or wrapped in *os.PathError
    wpc,        \* position of the monitor goroutine
    watches,    \* paths registered with the fsnotify watcher
    events,     \* watcher.Events, in delivery order
    fh,         \* the write handle the caller holds, if any
    pend,       \* calls that have classified their path and not yet acted on it
    ret         \* the last step: which call, and what it returned

vars == <<base, layer, cacheTime, now, fault, errStyle, wpc, watches, events, fh, pend, ret>>

\* ------------------------------------------------------------ entries
NoEnt == [kind |-> "none", data |-> 0, mtime |-> 0, mode |-> 0]
File(d, t, m) == [kind |-> "file", data |-> d, mtime |-> t, mode |-> m]
Dir(t, m) == [kind |-> "dir", data |-> 0, mtime |-> t, mode |-> m]

\* os.FileInfo of an entry; NilFi is the nil os.FileInfo
NilFi == [isDir |-> FALSE, modTime |-> -1, size |-> 0, mode |-> 0]
FileInfo(e) == [isDir |-> e.kind = "dir", modTime |-> e.mtime, size |-> e.data, mode |-> e.mode]

\* ------------------------------------------------------------ errors
\* An error value is <<dynamic type, errno>>.
Nil == <<"nil", "nil">>
ErrNotExist == <<"*errors.errorString", "file does not exist">>
Errno(e) == IF errStyle = "errno" THEN <<"syscall.Errno", e>> ELSE <<"*os.PathError", e>>
ENOENT == <<"syscall.Errno", "ENOENT">>
IsPathError(err) == err[1] = "*os.PathError"
\* the zero *os.PathError a failed type assertion leaves in the error variable
NilPathError == <<"*os.PathError", "nil pointer">>

Down(s) == (s = "base" /\ fault = "baseDown") \/ (s = "layer" /\ fault = "layerDown")
ReadOnly(s) == (s = "base" /\ fault = "baseRO") \/ (s = "layer" /\ fault = "layerRO")
\* the store refuses every open (Open, OpenFile, Create) and answers all else
NoOpen(s) == (s = "base" /\ fault = "baseNoOpen") \/ (s = "layer" /\ fault = "layerNoOpen")
IsDirAt(fs, name) == IF name = Root THEN TRUE ELSE fs[name].kind = "dir"

\* ------------------------------------------------------------ Fs primitives
FsStat(fs, s, name) ==
    IF Down(s) THEN [err |-> Errno("EIO"), fi |-> NilFi]
    ELSE IF fs[name].kind = "none" THEN [err |-> Errno("ENOENT"), fi |-> NilFi]
    ELSE [err |-> Nil, fi |-> FileInfo(fs[name])]

\* the error every mutating call gives before it looks at the path
WriteFault(s) ==
    IF Down(s) THEN Errno("EIO") ELSE IF ReadOnly(s) THEN Errno("EROFS") ELSE Nil

FsChmod(fs, s, name, mode) ==
    IF WriteFault(s) # Nil THEN [err |-> WriteFault(s), fs |-> fs]
    ELSE IF fs[name].kind = "none" THEN [err |-> Errno("ENOENT"), fs |-> fs]
    ELSE [err |-> Nil, fs |-> [fs EXCEPT ![name].mode = mode]]

FsChtimes(fs, s, name, mtime) ==
    IF WriteFault(s) # Nil THEN [err |-> WriteFault(s), fs |-> fs]
    ELSE IF fs[name].kind = "none" THEN [err |-> Errno("ENOENT"), fs |-> fs]
    ELSE [err |-> Nil, fs |-> [fs EXCEPT ![name].mtime = mtime]]

FsOpen(fs, s, name) ==
    IF Down(s) THEN [err |-> Errno("EIO"), ok |-> FALSE]
    ELSE IF NoOpen(s) THEN [err |-> Errno("EACCES"), ok |-> FALSE]
    ELSE IF fs[name].kind = "none" THEN [err |-> Errno("ENOENT"), ok |-> FALSE]
    ELSE [err |-> Nil, ok |-> TRUE]

\* ------------------------------------------------------------ cacheStatus
\* a call is <<receiver, method>>; every handler returns the calls it made, in order
LStat == <<"layer", "Stat">>
BStat == <<"base", "Stat">>
Promote == <<"u", "copyToLayer">>
\* time.Time.Before and .After are strict
Before(t, u) == t < u
\* the mutant of After: a base as old as the layer counts as newer
NotBefore(t, u) == t >= u
After(t, u) == t > u
\* the mutant of Unlimited: cache time 0 is treated like any other
NeverUnlimited(ct) == FALSE
\* u.cacheTime == 0: the cache never expires
Unlimited(ct) == ct = 0
\* the mutant of Expired: an entry expires at the end of the window, not after it
ExpiredAtEnd(ct, t, lfi) == lfi.modTime + ct <= t
\* lfi.ModTime().Add(u.cacheTime).Before(time.Now())
Expired(ct, t, lfi) == Before(lfi.modTime + ct, t)

\* the mutant of OnBaseStatError: the error of base.Stat is returned to the caller
PropagateBaseError(l, b) ==
    [st |-> "cacheMiss", fi |-> NilFi, err |-> b.err, calls |-> <<LStat, BStat>>]
\* bfi, err = u.base.Stat(name); if err != nil { return cacheLocal, lfi, nil }
OnBaseStatError(l, b) ==
    [st |-> "cacheLocal", fi |-> l.fi, err |-> Nil, calls |-> <<LStat, BStat>>]

\* cacheStatus on given values: ct the cache time, t the clock, l the result of
\* layer.Stat, b the result of base.Stat (consulted only where the code calls it)
classify(ct, t, l, b) ==
    IF l.err = Nil THEN
        IF Unlimited(ct) THEN
            [st |-> "cacheHit", fi |-> l.fi, err |-> Nil, calls |-> <<LStat>>]
        ELSE IF Expired(ct, t, l.fi) THEN
            IF b.err # Nil THEN OnBaseStatError(l, b)
            ELSE IF After(b.fi.modTime, l.fi.modTime) THEN
                [st |-> "cacheStale", fi |-> b.fi, err |-> Nil,
                 calls |-> <<LStat, BStat>>]
            ELSE
                [st |-> "cacheHit", fi |-> l.fi, err |-> Nil,
                 calls |-> <<LStat, BStat>>]
        ELSE
            [st |-> "cacheHit", fi |-> l.fi, err |-> Nil, calls |-> <<LStat>>]
    ELSE IF l.err = ENOENT THEN
        [st |-> "cacheMiss", fi |-> NilFi, err |-> Nil, calls |-> <<LStat>>]
    ELSE IF IsPathError(l.err) THEN
        \* err now holds the *os.PathError itself, compared with os.ErrNotExist
        IF l.err = ErrNotExist THEN
            [st |-> "cacheMiss", fi |-> NilFi, err |-> Nil, calls |-> <<LStat>>]
        ELSE
            [st |-> "cacheMiss", fi |-> NilFi, err |-> l.err, calls |-> <<LStat>>]
    ELSE
        \* the failed assertion stored a nil *os.PathError in err: a non-nil error
        [st |-> "cacheMiss", fi |-> NilFi, err |-> NilPathError, calls |-> <<LStat>>]

cacheStatus(name) ==
    classify(cacheTime, now, FsStat(layer, "layer", name), FsStat(base, "base", name))

\* ------------------------------------------------------------ results
NoHandle == <<"nil">>
\* arg is the set of flags of an OpenFile, the mode of a Chmod, the time of a Chtimes
Ret(op, name, st, err, fi, h, calls) ==
    [op |-> op, name |-> name, arg |-> {}, st |-> st, err |-> err, fi |-> fi, h |-> h,
     calls |-> calls]
WithArg(r, arg) == [r EXCEPT !.arg = arg]
EnvRet(op, name) == Ret(op, name, "-", Nil, NilFi, NoHandle, <<>>)

\* no call is between its cacheStatus and what follows it: fg is the foreground
\* call, w the handler of monitor, each <<>> or the pair of what was asked and
\* what cacheStatus answered
NoPend == [fg |-> <<>>, w |-> <<>>]

\* ------------------------------------------------------------ copyToLayer
\* parents of name that the layer lacks are created (MkdirAll of the directory)
WithParents(fs, name) ==
    IF Parent(name) # Root /\ fs[Parent(name)].kind = "none"
    THEN [fs EXCEPT ![Parent(name)] = Dir(now, 0)]
    ELSE fs

\* promotion: base.Open, layer.Create, copy of the bytes, layer.Chtimes to the
\* base's modification time.  A directory has no bytes to copy: the read fails.
copyToLayerOf(b, l, name) ==
    IF Down("base") THEN [err |-> Errno("EIO"), layer |-> l]
    ELSE IF NoOpen("base") THEN [err |-> Errno("EACCES"), layer |-> l]
    ELSE IF b[name].kind = "none" THEN [err |-> Errno("ENOENT"), layer |-> l]
    ELSE IF WriteFault("layer") # Nil THEN [err |-> WriteFault("layer"), layer |-> l]
    ELSE IF NoOpen("layer") THEN [err |-> Errno("EACCES"), layer |-> l]
    ELSE IF b[name].kind = "dir" \/ l[name].kind = "dir"
        THEN [err |-> Errno("EISDIR"), layer |-> l]
    ELSE IF ~IsDirAt(WithParents(l, name), Parent(name))
        THEN [err |-> Errno("ENOTDIR"), layer |-> l]
    ELSE [err |-> Nil,
          layer |-> [WithParents(l, name) EXCEPT
                        ![name] = File(b[name].data, b[name].mtime, l[name].mode)]]

\* the mutant of copyToLayer: a file the layer holds is not copied again
copyToLayerOnce(name) ==
    IF layer[name].kind = "none" THEN copyToLayerOf(base, layer, name)
    ELSE [err |-> Nil, layer |-> layer]
\* func (u *MonCacheOnReadFs) copyToLayer(name string) error
copyToLayer(name) == copyToLayerOf(base, layer, name)


\* ------------------------------------------------------------ Stat
\* the mutant of Stat: a path the layer lacks is promoted when the base has it
StatCachingMiss(name) ==
    LET cs == cacheStatus(name)
        b == FsStat(base, "base", name)
        cp == copyToLayer(name)
    IN  /\ IF cs.err # Nil THEN
               /\ layer' = layer
               /\ ret' = Ret("Stat", name, cs.st, cs.err, NilFi, NoHandle, cs.calls)
           ELSE IF cs.st = "cacheMiss" THEN
               /\ layer' = IF b.err = Nil THEN cp.layer ELSE layer
               /\ ret' = Ret("Stat", name, cs.st, b.err, b.fi, NoHandle,
                             Append(cs.calls, BStat))
           ELSE /\ layer' = layer
                /\ ret' = Ret("Stat", name, cs.st, Nil, cs.fi, NoHandle, cs.calls)
        /\ UNCHANGED <<pend, base, cacheTime, now, fault, errStyle, wpc, watches, events, fh>>

\* the mutant of Stat: a stale path is promoted before its metadata is returned
StatPromoting(name) ==
    LET cs == cacheStatus(name)
        cp == copyToLayer(name)
    IN  /\ IF cs.err = Nil /\ cs.st = "cacheStale" THEN
               /\ layer' = cp.layer
               /\ ret' = Ret("Stat", name, cs.st, cp.err, cs.fi, NoHandle,
                             Append(cs.calls, Promote))
           ELSE /\ layer' = layer
                /\ ret' = Ret("Stat", name, cs.st, cs.err, NilFi, NoHandle, cs.calls)
        /\ UNCHANGED <<pend, base, cacheTime, now, fault, errStyle, wpc, watches, events, fh>>

Stat(name) ==
    LET cs == cacheStatus(name) IN
    /\ ret' = IF cs.err # Nil THEN
                  Ret("Stat", name, cs.st, cs.err, NilFi, NoHandle, cs.calls)
              ELSE IF cs.st = "cacheMiss" THEN
                  LET b == FsStat(base, "base", name) IN
                  Ret("Stat", name, cs.st, b.err, b.fi, NoHandle,
                      Append(cs.calls, BStat))
              ELSE Ret("Stat", name, cs.st, Nil, cs.fi, NoHandle, cs.calls)
    /\ UNCHANGED <<pend, base, layer, cacheTime, now, fault, errStyle, wpc, watches, events, fh>>

\* ------------------------------------------------------------ Chtimes, Chmod
\* How a handler ends: the stores as it leaves them and what it returns.
Return(op, name, st, err, fi, h, calls, b, l) ==
    /\ base' = b
    /\ layer' = l
    /\ ret' = Ret(op, name, st, err, fi, h, calls)
ReturnArg(arg, op, name, st, err, fi, h, calls, b, l) ==
    /\ base' = b
    /\ layer' = l
    /\ ret' = WithArg(Ret(op, name, st, err, fi, h, calls), arg)

StaleOrMiss == {"cacheStale", "cacheMiss"}

\* The promotion Chtimes, Chmod, Rename make in the states of promoteOn
\* (switch st: case cacheStale, cacheMiss: copyToLayer).
promotion(name, promoteOn) ==
    IF cacheStatus(name).st \in promoteOn THEN copyToLayer(name)
    ELSE [err |-> Nil, layer |-> layer]

\* the mutant of applyVerb: the verb goes to the layer even when the base refused it
applyVerbDespiteBase(op, name, arg, promoteOn, bverb, lverb) ==
    LET cs == cacheStatus(name)
        promote == cs.st \in promoteOn
        cp == promotion(name, promoteOn)
        b == IF cs.st = "cacheLocal" THEN [err |-> Nil, fs |-> base] ELSE bverb
        l == lverb
        c1 == IF promote THEN Append(cs.calls, Promote) ELSE cs.calls
        c2 == IF cs.st = "cacheLocal" THEN c1 ELSE Append(c1, <<"base", op>>)
    IN  IF cs.err # Nil THEN
            ReturnArg(arg, op, name, cs.st, cs.err, NilFi, NoHandle, cs.calls, base, layer)
        ELSE IF cp.err # Nil THEN
            ReturnArg(arg, op, name, cs.st, cp.err, NilFi, NoHandle, c1, base, layer)
        ELSE
            ReturnArg(arg, op, name, cs.st, IF b.err # Nil THEN b.err ELSE l.err, NilFi,
                      NoHandle, Append(c2, <<"layer", op>>), b.fs, l.fs)

\* The body Chtimes, Chmod, Rename, Remove and RemoveAll share: cacheStatus; the
\* promotion in the states of promoteOn; unless Local the verb on base (bverb
\* is its outcome); then the verb on layer (lverb is its outcome on the layer
\* the promotion left).
applyVerb(op, name, arg, promoteOn, bverb, lverb) ==
    LET cs == cacheStatus(name)
        promote == cs.st \in promoteOn
        cp == promotion(name, promoteOn)
        b == IF cs.st = "cacheLocal" THEN [err |-> Nil, fs |-> base] ELSE bverb
        l == lverb
        c1 == IF promote THEN Append(cs.calls, Promote) ELSE cs.calls
        c2 == IF cs.st = "cacheLocal" THEN c1 ELSE Append(c1, <<"base", op>>)
    IN  IF cs.err # Nil THEN
            ReturnArg(arg, op, name, cs.st, cs.err, NilFi, NoHandle, cs.calls, base, layer)
        ELSE IF cp.err # Nil THEN
            ReturnArg(arg, op, name, cs.st, cp.err, NilFi, NoHandle, c1, base, layer)
        ELSE IF b.err # Nil THEN
            ReturnArg(arg, op, name, cs.st, b.err, NilFi, NoHandle, c2, base, cp.layer)
        ELSE
            ReturnArg(arg, op, name, cs.st, l.err, NilFi, NoHandle,
                      Append(c2, <<"layer", op>>), b.fs, l.fs)

Chtimes(name, mtime) ==
    /\ applyVerb("Chtimes", name, {mtime}, StaleOrMiss,
                 FsChtimes(base, "base", name, mtime),
                 FsChtimes(promotion(name, StaleOrMiss).layer, "layer", name, mtime))
    /\ UNCHANGED <<pend, cacheTime, now, fault, errStyle, wpc, watches, events, fh>>

Chmod(name, mode) ==
    /\ applyVerb("Chmod", name, {mode}, StaleOrMiss,
                 FsChmod(base, "base", name, mode),
                 FsChmod(promotion(name, StaleOrMiss).layer, "layer", name, mode))
    /\ UNCHANGED <<pend, cacheTime, now, fault, errStyle, wpc, watches, events, fh>>

\* ------------------------------------------------------------ Rename, Remove
FsRename(fs, s, oldname, newname) ==
    IF WriteFault(s) # Nil THEN [err |-> WriteFault(s), fs |-> fs]
    ELSE IF fs[oldname].kind = "none" THEN [err |-> Errno("ENOENT"), fs |-> fs]
    ELSE IF fs[newname].kind = "dir" \/ ~IsDirAt(fs, Parent(newname))
        THEN [err |-> Errno("EEXIST"), fs |-> fs]
    ELSE [err |-> Nil, fs |-> [fs EXCEPT ![newname] = fs[oldname], ![oldname] = NoEnt]]

FsRemove(fs, s, name) ==
    IF WriteFault(s) # Nil THEN [err |-> WriteFault(s), fs |-> fs]
    ELSE IF fs[name].kind = "none" THEN [err |-> Errno("ENOENT"), fs |-> fs]
    ELSE IF \E n \in Names : Parent(n) = name /\ fs[n].kind # "none"
        THEN [err |-> Errno("ENOTEMPTY"), fs |-> fs]
    ELSE [err |-> Nil, fs |-> [fs EXCEPT ![name] = NoEnt]]

Rename(oldname, newname) ==
    /\ applyVerb("Rename", oldname, {newname}, StaleOrMiss,
                 FsRename(base, "base", oldname, newname),
                 FsRename(promotion(oldname, StaleOrMiss).layer, "layer", oldname, newname))
    /\ UNCHANGED <<pend, cacheTime, now, fault, errStyle, wpc, watches, events, fh>>

\* the mutant of Remove: a Stale or Miss path is promoted before it is removed
RemovePromoting(name) ==
    /\ applyVerb("Remove", name, {}, StaleOrMiss,
                 FsRemove(base, "base", name),
                 FsRemove(promotion(name, StaleOrMiss).layer, "layer", name))
    /\ UNCHANGED <<pend, cacheTime, now, fault, errStyle, wpc, watches, events, fh>>

\* Remove promotes in no state
Remove(name) ==
    /\ applyVerb("Remove", name, {}, {},
                 FsRemove(base, "base", name), FsRemove(layer, "layer", name))
    /\ UNCHANGED <<pend, cacheTime, now, fault, errStyle, wpc, watches, events, fh>>

\* RemoveAll of one store: the path and all below it go; a missing path is no error
FsRemoveAll(fs, s, name) ==
    IF WriteFault(s) # Nil THEN [err |-> WriteFault(s), fs |-> fs]
    ELSE [err |-> Nil,
          fs |-> [n \in Names |-> IF n = name \/ Parent(n) = name THEN NoEnt ELSE fs[n]]]

\* RemoveAll promotes in no state
RemoveAll(name) ==
    /\ applyVerb("RemoveAll", name, {}, {},
                 FsRemoveAll(base, "base", name), FsRemoveAll(layer, "layer", name))
    /\ UNCHANGED <<pend, cacheTime, now, fault, errStyle, wpc, watches, events, fh>>

\* ------------------------------------------------------------ Open
\* the mutant of OpenStalePromotes: a stale directory is promoted like a file
OpenStaleAlwaysPromotes(fi) == TRUE
\* the mutant of OpenStalePromotes: a stale file is opened like a directory
OpenStaleNeverPromotes(fi) == FALSE
\* case cacheStale: if !fi.IsDir() { promote, open the layer }
OpenStalePromotes(fi) == ~fi.isDir

\* Open from the answer cs of cacheStatus on
OpenAfter(name, cs) ==
    LET bst == FsStat(base, "base", name)
        cp == copyToLayer(name)
        lo == FsOpen(layer, "layer", name)        \* layer.Open with the layer as it was
        po == FsOpen(cp.layer, "layer", name)     \* layer.Open after the promotion
        bo == FsOpen(base, "base", name)
        LOpen == <<"layer", "Open">>
        BOpen == <<"base", "Open">>
        H(o, h) == IF o.err = Nil THEN <<h>> ELSE NoHandle
        P(o, h) == IF o.err = Nil THEN h ELSE "nil"
        promoted(st, calls) ==
            IF cp.err # Nil THEN
                Return("Open", name, st, cp.err, NilFi, NoHandle,
                       Append(calls, Promote), base, layer)
            ELSE Return("Open", name, st, po.err, NilFi, H(po, "layer"),
                        calls \o <<Promote, LOpen>>, base, cp.layer)
        fromLayer(st, calls) ==
            Return("Open", name, st, lo.err, NilFi, H(lo, "layer"),
                   Append(calls, LOpen), base, layer)
        union(st, calls) ==
            IF lo.err # Nil /\ bo.err # Nil THEN
                Return("Open", name, st, lo.err, NilFi, NoHandle,
                       calls \o <<BOpen, LOpen>>, base, layer)
            ELSE Return("Open", name, st, Nil, NilFi,
                        <<"UnionFile", P(bo, "base"), P(lo, "layer")>>,
                        calls \o <<BOpen, LOpen>>, base, layer)
    IN  IF cs.err # Nil THEN
            Return("Open", name, cs.st, cs.err, NilFi, NoHandle, cs.calls, base, layer)
        ELSE IF cs.st = "cacheLocal" THEN fromLayer(cs.st, cs.calls)
        ELSE IF cs.st = "cacheMiss" THEN
            IF bst.err # Nil THEN
                Return("Open", name, cs.st, bst.err, NilFi, NoHandle,
                       Append(cs.calls, BStat), base, layer)
            ELSE IF bst.fi.isDir THEN
                Return("Open", name, cs.st, bo.err, NilFi, H(bo, "base"),
                       cs.calls \o <<BStat, BOpen>>, base, layer)
            ELSE promoted(cs.st, Append(cs.calls, BStat))
        ELSE IF cs.st = "cacheStale" THEN
            IF OpenStalePromotes(cs.fi) THEN promoted(cs.st, cs.calls)
            ELSE union(cs.st, cs.calls)
        ELSE \* cacheHit
            IF ~cs.fi.isDir THEN fromLayer(cs.st, cs.calls) ELSE union(cs.st, cs.calls)

Open(name) ==
    /\ OpenAfter(name, cacheStatus(name))
    /\ UNCHANGED <<pend, cacheTime, now, fault, errStyle, wpc, watches, events, fh>>

\* Open in the two steps another goroutine can come between: cacheStatus, then
\* the rest (the base.Stat of a Miss is taken with the promotion it precedes)
OpenClassify(name) ==
    /\ pend.fg = <<>>
    /\ pend' = [pend EXCEPT !.fg = <<name, cacheStatus(name)>>]
    /\ ret' = EnvRet("Open.cacheStatus", name)
    /\ UNCHANGED <<base, layer, cacheTime, now, fault, errStyle, wpc, watches, events, fh>>

OpenFinish ==
    /\ pend.fg # <<>>
    /\ OpenAfter(pend.fg[1], pend.fg[2])
    /\ pend' = [pend EXCEPT !.fg = <<>>]
    /\ UNCHANGED <<cacheTime, now, fault, errStyle, wpc, watches, events, fh>>

\* ------------------------------------------------------------ OpenFile
\* os.O_RDONLY is the empty set of flags
WriteFlags == {"O_WRONLY", "O_RDWR", "O_APPEND", "O_CREATE", "O_TRUNC"}
Flags == {{}, {"O_RDWR"}, {"O_RDWR", "O_CREATE", "O_TRUNC"}}

\* OpenFile of one store with write-class flags
FsOpenFile(fs, s, name, flag) ==
    IF WriteFault(s) # Nil THEN [err |-> WriteFault(s), fs |-> fs]
    ELSE IF NoOpen(s) THEN [err |-> Errno("EACCES"), fs |-> fs]
    ELSE IF fs[name].kind = "dir" THEN [err |-> Errno("EISDIR"), fs |-> fs]
    ELSE IF fs[name].kind = "none" THEN
        IF "O_CREATE" \in flag /\ IsDirAt(fs, Parent(name))
        THEN [err |-> Nil, fs |-> [fs EXCEPT ![name] = File(0, now, 0)]]
        ELSE [err |-> Errno("ENOENT"), fs |-> fs]
    ELSE IF "O_TRUNC" \in flag
        THEN [err |-> Nil, fs |-> [fs EXCEPT ![name] = File(0, now, fs[name].mode)]]
    ELSE [err |-> Nil, fs |-> fs]

\* switch st { case cacheLocal, cacheHit: default: copyToLayer }
OpenFilePromotes(st) == st \notin {"cacheLocal", "cacheHit"}

OpenFile(name, flag) ==
    LET cs == cacheStatus(name)
        promote == OpenFilePromotes(cs.st)
        cp == IF promote THEN copyToLayer(name) ELSE [err |-> Nil, layer |-> layer]
        c1 == IF promote THEN Append(cs.calls, Promote) ELSE cs.calls
        b == FsOpenFile(base, "base", name, flag)
        l == FsOpenFile(cp.layer, "layer", name, flag)
        lo == FsOpen(cp.layer, "layer", name)
        BOpenFile == <<"base", "OpenFile">>
        LOpenFile == <<"layer", "OpenFile">>
    IN  IF cs.err # Nil THEN
            /\ ReturnArg(flag, "OpenFile", name, cs.st, cs.err, NilFi, NoHandle, cs.calls, base, layer)
            /\ fh' = fh
        ELSE IF cp.err # Nil THEN
            /\ ReturnArg(flag, "OpenFile", name, cs.st, cp.err, NilFi, NoHandle, c1, base, layer)
            /\ fh' = fh
        ELSE IF flag \cap WriteFlags # {} THEN
            IF b.err # Nil THEN
                /\ ReturnArg(flag, "OpenFile", name, cs.st, b.err, NilFi, NoHandle,
                          Append(c1, BOpenFile), base, cp.layer)
                /\ fh' = fh
            ELSE IF l.err # Nil THEN
                /\ ReturnArg(flag, "OpenFile", name, cs.st, l.err, NilFi, NoHandle,
                          c1 \o <<BOpenFile, LOpenFile, <<"bfi", "Close">> >>, b.fs, cp.layer)
                /\ fh' = fh
            ELSE
                /\ ReturnArg(flag, "OpenFile", name, cs.st, Nil, NilFi, <<"UnionFile", "base", "layer">>,
                          c1 \o <<BOpenFile, LOpenFile>>, b.fs, l.fs)
                /\ fh' = <<"UnionFile", name>>
        ELSE
            /\ ReturnArg(flag, "OpenFile", name, cs.st, lo.err, NilFi,
                      IF lo.err = Nil THEN <<"layer">> ELSE NoHandle,
                      Append(c1, LOpenFile), base, cp.layer)
            /\ fh' = fh

\* The caller holds at most one write handle at a time.
OpenFileCall(name, flag) ==
    /\ flag \cap WriteFlags # {} => fh = NoHandle
    /\ OpenFile(name, flag)
    /\ UNCHANGED <<pend, cacheTime, now, fault, errStyle, wpc, watches, events>>

\* ------------------------------------------------------------ Create
\* Create of one store: OpenFile with O_RDWR|O_CREATE|O_TRUNC
FsCreate(fs, s, name) == FsOpenFile(fs, s, name, {"O_RDWR", "O_CREATE", "O_TRUNC"})

\* the mutant of Create: the layer's file is made before the base's
CreateLayerFirst(name) ==
    LET l == FsCreate(layer, "layer", name)
        b == FsCreate(base, "base", name)
    IN  IF l.err # Nil THEN
            /\ Return("Create", name, "-", l.err, NilFi, NoHandle,
                      << <<"layer", "Create">> >>, base, layer)
            /\ fh' = fh
        ELSE IF b.err # Nil THEN
            /\ Return("Create", name, "-", b.err, NilFi, NoHandle,
                      << <<"layer", "Create">>, <<"base", "Create">>, <<"lfh", "Close">> >>,
                      base, l.fs)
            /\ fh' = fh
        ELSE
            /\ Return("Create", name, "-", Nil, NilFi, <<"UnionFile", "base", "layer">>,
                      << <<"layer", "Create">>, <<"base", "Create">> >>, b.fs, l.fs)
            /\ fh' = <<"UnionFile", name>>

\* the mutant of Create: the base handle stays open when the layer's Create fails
CreateLeakingBase(name) ==
    LET b == FsCreate(base, "base", name)
        l == FsCreate(layer, "layer", name)
    IN  IF b.err # Nil THEN
            /\ Return("Create", name, "-", b.err, NilFi, NoHandle,
                      << <<"base", "Create">> >>, base, layer)
            /\ fh' = fh
        ELSE IF l.err # Nil THEN
            /\ Return("Create", name, "-", l.err, NilFi, NoHandle,
                      << <<"base", "Create">>, <<"layer", "Create">> >>, b.fs, layer)
            /\ fh' = fh
        ELSE
            /\ Return("Create", name, "-", Nil, NilFi, <<"UnionFile", "base", "layer">>,
                      << <<"base", "Create">>, <<"layer", "Create">> >>, b.fs, l.fs)
            /\ fh' = <<"UnionFile", name>>

Create(name) ==
    LET b == FsCreate(base, "base", name)
        l == FsCreate(layer, "layer", name)
    IN  IF b.err # Nil THEN
            /\ Return("Create", name, "-", b.err, NilFi, NoHandle,
                      << <<"base", "Create">> >>, base, layer)
            /\ fh' = fh
        ELSE IF l.err # Nil THEN
            /\ Return("Create", name, "-", l.err, NilFi, NoHandle,
                      << <<"base", "Create">>, <<"layer", "Create">>, <<"bfh", "Close">> >>,
                      b.fs, layer)
            /\ fh' = fh
        ELSE
            /\ Return("Create", name, "-", Nil, NilFi, <<"UnionFile", "base", "layer">>,
                      << <<"base", "Create">>, <<"layer", "Create">> >>, b.fs, l.fs)
            /\ fh' = <<"UnionFile", name>>

\* The caller holds at most one write handle at a time.
CreateCall(name) ==
    /\ fh = NoHandle
    /\ Create(name)
    /\ UNCHANGED <<pend, cacheTime, now, fault, errStyle, wpc, watches, events>>
\* ------------------------------------------------------------ UnionFile
\* a write through the fan-out handle lands in the file of each store
FileWrite(fs, s, name, d) ==
    IF ~Down(s) /\ fs[name].kind = "file"
    THEN [fs EXCEPT ![name] = File(d, now, fs[name].mode)]
    ELSE fs

UnionFileWrite(d) ==
    /\ fh # NoHandle
    /\ layer' = FileWrite(layer, "layer", fh[2], d)
    /\ base' = FileWrite(base, "base", fh[2], d)
    /\ ret' = EnvRet("UnionFile.Write", fh[2])
    /\ UNCHANGED <<pend, cacheTime, now, fault, errStyle, wpc, watches, events, fh>>

UnionFileClose ==
    /\ fh # NoHandle
    /\ fh' = NoHandle
    /\ ret' = EnvRet("UnionFile.Close", fh[2])
    /\ UNCHANGED <<pend, base, layer, cacheTime, now, fault, errStyle, wpc, watches, events>>

\* ------------------------------------------------------------ Mkdir, MkdirAll
FsMkdir(fs, s, name) ==
    IF WriteFault(s) # Nil THEN [err |-> WriteFault(s), fs |-> fs]
    ELSE IF fs[name].kind # "none" THEN [err |-> Errno("EEXIST"), fs |-> fs]
    ELSE IF ~IsDirAt(fs, Parent(name)) THEN [err |-> Errno("ENOENT"), fs |-> fs]
    ELSE [err |-> Nil, fs |-> [fs EXCEPT ![name] = Dir(now, 0)]]

FsMkdirAll(fs, s, name) ==
    IF WriteFault(s) # Nil THEN [err |-> WriteFault(s), fs |-> fs]
    ELSE IF fs[name].kind = "dir" THEN [err |-> Nil, fs |-> fs]
    ELSE IF fs[name].kind = "file" \/ ~IsDirAt(WithParents(fs, name), Parent(name))
        THEN [err |-> Errno("ENOTDIR"), fs |-> fs]
    ELSE [err |-> Nil, fs |-> [WithParents(fs, name) EXCEPT ![name] = Dir(now, 0)]]

\* the mutant of Mkdir: the layer gets Mkdir, as the base does
MkdirPlainInLayer(name) ==
    LET b == FsMkdir(base, "base", name)
        l == FsMkdir(layer, "layer", name)
    IN  /\ IF b.err # Nil THEN
               Return("Mkdir", name, "-", b.err, NilFi, NoHandle,
                      << <<"base", "Mkdir">> >>, base, layer)
           ELSE Return("Mkdir", name, "-", l.err, NilFi, NoHandle,
                       << <<"base", "Mkdir">>, <<"layer", "Mkdir">> >>, b.fs, l.fs)
        /\ UNCHANGED <<pend, cacheTime, now, fault, errStyle, wpc, watches, events, fh>>

Mkdir(name) ==
    LET b == FsMkdir(base, "base", name)
        l == FsMkdirAll(layer, "layer", name)
    IN  /\ IF b.err # Nil THEN
               Return("Mkdir", name, "-", b.err, NilFi, NoHandle,
                      << <<"base", "Mkdir">> >>, base, layer)
           ELSE Return("Mkdir", name, "-", l.err, NilFi, NoHandle,
                       << <<"base", "Mkdir">>, <<"layer", "MkdirAll">> >>, b.fs, l.fs)
        /\ UNCHANGED <<pend, cacheTime, now, fault, errStyle, wpc, watches, events, fh>>

MkdirAll(name) ==
    LET b == FsMkdirAll(base, "base", name)
        l == FsMkdirAll(layer, "layer", name)
    IN  /\ IF b.err # Nil THEN
               Return("MkdirAll", name, "-", b.err, NilFi, NoHandle,
                      << <<"base", "MkdirAll">> >>, base, layer)
           ELSE Return("MkdirAll", name, "-", l.err, NilFi, NoHandle,
                       << <<"base", "MkdirAll">>, <<"layer", "MkdirAll">> >>, b.fs, l.fs)
        /\ UNCHANGED <<pend, cacheTime, now, fault, errStyle, wpc, watches, events, fh>>

\* ------------------------------------------------------------ monitor
\* fsnotify.NewWatcher() gives a watcher or an error; the watcher is a local of
\* monitor, and nothing adds a path to it.
monitor ==
    /\ wpc = "start"
    /\ \E ok \in BOOLEAN : wpc' = IF ok THEN "idle" ELSE "dead"
    /\ ret' = EnvRet("monitor", Root)
    /\ UNCHANGED <<pend, base, layer, cacheTime, now, fault, errStyle, watches, events, fh>>

\* the handler of monitor on an event, from the answer cs of cacheStatus on
handleEvent(event, cs) ==
    LET cp == copyToLayer(event.Name)
    IN  IF ~event.Write THEN
            Return("monitor.event", event.Name, "-", Nil, NilFi, NoHandle, <<>>, base, layer)
        ELSE IF cs.err # Nil THEN
            Return("monitor.event", event.Name, cs.st, cs.err, NilFi, NoHandle,
                   cs.calls, base, layer)
        ELSE IF cs.st \in {"cacheLocal", "cacheStale", "cacheHit"} /\ ~cs.fi.isDir THEN
            Return("monitor.event", event.Name, cs.st, cp.err, NilFi, NoHandle,
                   Append(cs.calls, Promote), base, cp.layer)
        ELSE Return("monitor.event", event.Name, cs.st, Nil, NilFi, NoHandle,
                    cs.calls, base, layer)

\* the mutant of monitorEvent: a path the layer lacks is promoted as well
monitorEventOnMiss ==
    /\ wpc = "idle"
    /\ events # <<>>
    /\ LET event == Head(events)
           cs == cacheStatus(event.Name)
           cp == copyToLayer(event.Name)
       IN  IF ~event.Write THEN
               Return("monitor.event", event.Name, "-", Nil, NilFi, NoHandle, <<>>, base, layer)
           ELSE IF cs.err # Nil THEN
               Return("monitor.event", event.Name, cs.st, cs.err, NilFi, NoHandle,
                      cs.calls, base, layer)
           ELSE Return("monitor.event", event.Name, cs.st, cp.err, NilFi, NoHandle,
                       Append(cs.calls, Promote), base, cp.layer)
    /\ events' = Tail(events)
    /\ UNCHANGED <<pend, cacheTime, now, fault, errStyle, wpc, watches, fh>>

\* the mutant of monitorEvent: the goroutine returns when the handling fails
monitorEventStopping ==
    /\ wpc = "idle"
    /\ events # <<>>
    /\ LET event == Head(events)
           cs == cacheStatus(event.Name)
           cp == copyToLayer(event.Name)
       IN  IF ~event.Write THEN
               /\ Return("monitor.event", event.Name, "-", Nil, NilFi, NoHandle, <<>>, base, layer)
               /\ wpc' = wpc
           ELSE IF cs.err # Nil THEN
               /\ Return("monitor.event", event.Name, cs.st, cs.err, NilFi, NoHandle,
                         cs.calls, base, layer)
               /\ wpc' = "dead"
           ELSE IF cs.st \in {"cacheLocal", "cacheStale", "cacheHit"} /\ ~cs.fi.isDir THEN
               /\ Return("monitor.event", event.Name, cs.st, cp.err, NilFi, NoHandle,
                         Append(cs.calls, Promote), base, cp.layer)
               /\ wpc' = IF cp.err # Nil THEN "dead" ELSE wpc
           ELSE /\ Return("monitor.event", event.Name, cs.st, Nil, NilFi, NoHandle,
                          cs.calls, base, layer)
                /\ wpc' = wpc
    /\ events' = Tail(events)
    /\ UNCHANGED <<pend, cacheTime, now, fault, errStyle, watches, fh>>

\* one turn of the goroutine's loop on the next event of watcher.Events
monitorEvent ==
    /\ wpc = "idle"
    /\ events # <<>>
    /\ handleEvent(Head(events), cacheStatus(Head(events).Name))
    /\ events' = Tail(events)
    /\ UNCHANGED <<pend, cacheTime, now, fault, errStyle, wpc, watches, fh>>

\* the same turn in the two steps a foreground call can come between: the receive
\* with cacheStatus, then the rest
monitorClassify ==
    /\ wpc = "idle"
    /\ events # <<>>
    /\ pend.w = <<>>
    /\ pend' = [pend EXCEPT !.w = <<Head(events), cacheStatus(Head(events).Name)>>]
    /\ events' = Tail(events)
    /\ ret' = EnvRet("monitor.cacheStatus", Head(events).Name)
    /\ UNCHANGED <<base, layer, cacheTime, now, fault, errStyle, wpc, watches, fh>>

monitorFinish ==
    /\ pend.w # <<>>
    /\ handleEvent(pend.w[1], pend.w[2])
    /\ pend' = [pend EXCEPT !.w = <<>>]
    /\ UNCHANGED <<cacheTime, now, fault, errStyle, wpc, watches, events, fh>>

\* one turn of the loop on watcher.Errors: the error is logged
monitorError ==
    /\ wpc = "idle"
    /\ ret' = EnvRet("monitor.error", Root)
    /\ UNCHANGED <<pend, base, layer, cacheTime, now, fault, errStyle, wpc, watches, events, fh>>

\* ------------------------------------------------------------ environment
Tick ==
    /\ now < MaxTime
    /\ now' = now + 1
    /\ ret' = EnvRet("Tick", Root)
    /\ UNCHANGED <<pend, base, layer, cacheTime, fault, errStyle, wpc, watches, events, fh>>

Faults == {"none", "baseDown", "baseRO", "layerDown", "layerRO"}
SetFault(f) ==
    /\ f # fault
    /\ fault' = f
    /\ ret' = EnvRet("SetFault", Root)
    /\ UNCHANGED <<pend, base, layer, cacheTime, now, errStyle, wpc, watches, events, fh>>

\* fsnotify delivers a write event only for a path that was added to the watcher
Notify(name) ==
    IF name \in watches THEN Append(events, [Name |-> name, Write |-> TRUE]) ELSE events

\* another process writes a file of the base
ExtWrite(name, d) ==
    /\ fault # "baseDown"
    /\ base[name].kind # "dir"
    /\ IsDirAt(base, Parent(name))
    /\ base' = [base EXCEPT ![name] = File(d, now, base[name].mode)]
    /\ events' = Notify(name)
    /\ ret' = EnvRet("ExtWrite", name)
    /\ UNCHANGED <<pend, layer, cacheTime, now, fault, errStyle, wpc, watches, fh>>

\* another process removes a file, or an empty directory, of the base
ExtRemove(name) ==
    /\ fault # "baseDown"
    /\ base[name].kind # "none"
    /\ \A n \in Names : Parent(n) = name => base[n].kind = "none"
    /\ base' = [base EXCEPT ![name] = NoEnt]
    /\ events' = IF name \in watches
                 THEN Append(events, [Name |-> name, Write |-> FALSE]) ELSE events
    /\ ret' = EnvRet("ExtRemove", name)
    /\ UNCHANGED <<pend, layer, cacheTime, now, fault, errStyle, wpc, watches, fh>>

\* another process makes a directory in the base
ExtMkdir(name) ==
    /\ fault # "baseDown"
    /\ base[name].kind = "none"
    /\ IsDirAt(base, Parent(name))
    /\ base' = [base EXCEPT ![name] = Dir(now, 0)]
    /\ ret' = EnvRet("ExtMkdir", name)
    /\ UNCHANGED <<pend, layer, cacheTime, now, fault, errStyle, wpc, watches, events, fh>>

\* another process changes the entries of a directory of the base: where the
\* platform reports that as a write, a write event names the directory
ExtTouchDir(name) ==
    /\ fault # "baseDown"
    /\ base[name].kind = "dir"
    /\ base' = [base EXCEPT ![name].mtime = now]
    /\ events' = Notify(name)
    /\ ret' = EnvRet("ExtTouchDir", name)
    /\ UNCHANGED <<pend, layer, cacheTime, now, fault, errStyle, wpc, watches, fh>>

\* fsnotify holds at most MaxEvents events that the goroutine has not taken
Room == Len(events) < MaxEvents

\* ------------------------------------------------------------ construction
EmptyFs == [n \in Names |-> NoEnt]

\* NewMonCacheOnReadFs(base, layer, cacheTime): the layer starts as an empty cache
\* and monitor is started as a goroutine.
NewMonCacheOnReadFs(b, ct) ==
    /\ base = b
    /\ layer = EmptyFs
    /\ cacheTime = ct
    /\ wpc = "start"
    /\ watches = {}
    /\ events = <<>>

\* the state after construction, for a base among bases, a cache time among cts and
\* stores whose error style is among styles
InitWith(bases, cts, styles) ==
    /\ \E b \in bases, ct \in cts : NewMonCacheOnReadFs(b, ct)
    /\ now = 0
    /\ fault = "none"
    /\ errStyle \in styles
    /\ fh = NoHandle
    /\ ret = EnvRet("New", Root)
    /\ pend = NoPend

\* the same, constructed when the clock already shows MaxTime
InitLate(bases, cts, styles) ==
    /\ \E b \in bases, ct \in cts : NewMonCacheOnReadFs(b, ct)
    /\ now = MaxTime
    /\ fault = "none"
    /\ errStyle \in styles
    /\ fh = NoHandle
    /\ ret = EnvRet("New", Root)
    /\ pend = NoPend

\* The file system its comment describes (lines 26-27): the paths ws of the base are
\* watched, so that fsnotify delivers their events.  The code itself adds no path;
\* this is the state the handler of monitor is written for.
InitWatched(bases, cts, styles, ws) ==
    /\ \E b \in bases, ct \in cts :
          /\ base = b
          /\ layer = EmptyFs
          /\ cacheTime = ct
    /\ wpc = "start"
    /\ watches = ws
    /\ events = <<>>
    /\ now = 0
    /\ fault = "none"
    /\ errStyle \in styles
    /\ fh = NoHandle
    /\ ret = EnvRet("New", Root)
    /\ pend = NoPend

ErrStyles == {"errno", "patherror"}
BaseWithFile == [EmptyFs EXCEPT !["/a"] = File(1, 0, 0)]
BaseWithDir == [EmptyFs EXCEPT !["/d"] = Dir(0, 0)]

Init == InitWith({EmptyFs, BaseWithFile}, 0..MaxCacheTime, ErrStyles)

\* The read and metadata verbs on the file "/a", with the clock, the faults of the
\* two stores and another process writing and removing the file in the base.
Next ==
    \/ Tick
    \/ \E f \in Faults : SetFault(f)
    \/ \E d \in Data : ExtWrite("/a", d)
    \/ ExtRemove("/a")
    \/ Stat("/a")
    \/ Open("/a")
    \/ OpenFileCall("/a", {})
    \/ \E m \in Modes : Chmod("/a", m)
    \/ \E t \in Times : Chtimes("/a", t)

Spec == Init /\ [][Next]_vars
\* Write-class opens of "/a" and the writes through the handle they return.
NextWrite ==
    \/ Tick
    \/ \E f \in Flags : OpenFileCall("/a", f)
    \/ \E d \in Data : UnionFileWrite(d)
    \/ UnionFileClose

SpecWrite == InitWith({EmptyFs, BaseWithFile}, 0..MaxCacheTime, {"errno"}) /\ [][NextWrite]_vars

\* The directory verbs on "/d" and "/d/e", with another process making and removing
\* directories in the base.
NextDir ==
    \/ Tick
    \/ \E f \in Faults : SetFault(f)
    \/ \E n \in DirNames : ExtMkdir(n)
    \/ \E n \in DirNames : ExtRemove(n)
    \/ \E n \in DirNames : Mkdir(n)
    \/ \E n \in DirNames : MkdirAll(n)
    \/ \E n \in DirNames : Stat(n)
    \/ \E n \in DirNames : Open(n)

SpecDir == InitWith({EmptyFs, BaseWithDir}, 0..MaxCacheTime, {"errno"}) /\ [][NextDir]_vars

\* The monitor goroutine beside foreground reads of "/a" and another process
\* writing it.  monitorEvent has no place among the steps: watches stays empty, so
\* no event is ever delivered.  The goroutine is scheduled whenever it can run.
NextMonitor ==
    \/ Tick
    \/ monitor
    \/ \E d \in Data : ExtWrite("/a", d)
    \/ Stat("/a")
    \/ Open("/a")

FairSpec ==
    /\ InitWith({EmptyFs, BaseWithFile}, 0..MaxCacheTime, {"errno"})
    /\ [][NextMonitor]_vars
    /\ WF_vars(monitor)
    /\ WF_vars(monitorEvent)

\* Cache time 0: every verb of the files "/a" and "/b", while another process
\* writes "/a" in the base and the base comes and goes.
NextUnlimited ==
    \/ Tick
    \/ \E f \in {"none", "baseDown"} : SetFault(f)
    \/ ExtWrite("/a", MaxData)
    \/ \E n \in FileNames : Stat(n)
    \/ \E n \in FileNames : Open(n)
    \/ \E n \in FileNames, f \in {{}, {"O_RDWR"}} : OpenFileCall(n, f)
    \/ UnionFileClose
    \/ Chmod("/a", 1)
    \/ Chtimes("/a", 0)
    \/ Rename("/a", "/b")
    \/ Rename("/b", "/a")
    \/ \E n \in FileNames : Remove(n)

SpecUnlimited == InitWith({BaseWithFile}, {0}, {"errno"}) /\ [][NextUnlimited]_vars


\* Every mutating verb: the metadata verbs, Rename, Remove, RemoveAll, Create and the
\* write-class OpenFile on the file "/a", Mkdir and MkdirAll on "/d", while the base
\* turns read-only and another process writes and removes "/a" in the base.  The
\* clock stands at MaxTime, so that a file made at time 0 has left the window.
NextMutate ==
    \/ \E f \in {"none", "baseRO"} : SetFault(f)
    \/ ExtWrite("/a", 1)
    \/ ExtRemove("/a")
    \/ Open("/a")
    \/ Chmod("/a", 1)
    \/ Chtimes("/a", 0)
    \/ Rename("/a", "/b")
    \/ Remove("/a")
    \/ RemoveAll("/a")
    \/ CreateCall("/a")
    \/ \E f \in Flags \ {{}} : OpenFileCall("/a", f)
    \/ UnionFileClose
    \/ Mkdir("/d")
    \/ MkdirAll("/d")

SpecMutate == InitLate({BaseWithFile}, {MaxCacheTime}, {"errno"}) /\ [][NextMutate]_vars

\* The verbs that classify before they write, Chtimes, Chmod, Rename, Remove and
\* RemoveAll, on a file that Open caches, while either store turns read-only and
\* another process writes and removes the file in the base.
NextVerbs ==
    \/ \E f \in {"none", "baseRO", "layerRO"} : SetFault(f)
    \/ ExtWrite("/a", 1)
    \/ ExtRemove("/a")
    \/ Open("/a")
    \/ Chmod("/a", 1)
    \/ Chtimes("/a", 0)
    \/ Rename("/a", "/b")
    \/ Remove("/a")
    \/ RemoveAll("/a")

SpecVerbs == InitLate({BaseWithFile}, {MaxCacheTime}, {"errno"}) /\ [][NextVerbs]_vars

\* Create and the write-class OpenFile of "/a", while either store fails.
NextCreate ==
    \/ Tick
    \/ \E f \in Faults : SetFault(f)
    \/ Open("/a")
    \/ Remove("/a")
    \/ CreateCall("/a")
    \/ \E f \in Flags \ {{}} : OpenFileCall("/a", f)
    \/ UnionFileClose

SpecCreate == InitWith({EmptyFs, BaseWithFile}, 0..MaxCacheTime, {"errno"}) /\ [][NextCreate]_vars

\* Open of the directory "/d", made through the union or by another process in the
\* base, while either store refuses to open it.
NextDirOpen ==
    \/ Tick
    \/ \E f \in {"none", "baseNoOpen", "layerNoOpen"} : SetFault(f)
    \/ ExtMkdir("/d")
    \/ ExtRemove("/d")
    \/ Mkdir("/d")
    \/ Stat("/d")
    \/ Open("/d")

SpecDirOpen == InitWith({EmptyFs, BaseWithDir}, 0..MaxCacheTime, {"errno"}) /\ [][NextDirOpen]_vars

\* The handler of monitor on the events of watched paths: the file "/a" and the
\* directory "/d" are read and made through the union and changed by another
\* process, while either store fails.
BaseWithBoth == [EmptyFs EXCEPT !["/a"] = File(1, 0, 0), !["/d"] = Dir(0, 0)]
NextWatched ==
    \/ Tick
    \/ \E f \in {"none", "baseDown", "layerDown"} : SetFault(f)
    \/ monitor
    \/ monitorEvent
    \/ monitorError
    \/ Room /\ ExtWrite("/a", MaxData)
    \/ Room /\ ExtRemove("/a")
    \/ Room /\ ExtTouchDir("/d")
    \/ Stat("/a")
    \/ Open("/a")
    \/ OpenFileCall("/a", {})
    \/ MkdirAll("/d")

SpecWatched ==
    InitWatched({BaseWithBoth}, 0..MaxCacheTime, {"errno"}, {"/a", "/d"}) /\ [][NextWatched]_vars

\* The goroutine of monitor, scheduled whenever it can run, on the events of the
\* watched file "/a", beside a foreground Open and the failures of either store.
NextWatchedLoop ==
    \/ Tick
    \/ \E f \in {"none", "baseDown", "layerDown"} : SetFault(f)
    \/ monitor
    \/ monitorEvent
    \/ monitorError
    \/ \E d \in Data : Room /\ ExtWrite("/a", d)
    \/ Room /\ ExtRemove("/a")
    \/ Open("/a")

FairSpecWatched ==
    /\ InitWatched({BaseWithFile}, 0..MaxCacheTime, {"errno"}, {"/a"})
    /\ [][NextWatchedLoop]_vars
    /\ WF_vars(monitor)
    /\ WF_vars(monitorEvent)

\* A foreground Open of the watched file "/a" beside the handler of monitor, each
\* in its two steps, while another process writes and removes the file in the base.
NextRace ==
    \/ Tick
    \/ \E f \in {"none", "baseDown"} : SetFault(f)
    \/ monitor
    \/ monitorClassify
    \/ monitorFinish
    \/ \E d \in Data : Room /\ ExtWrite("/a", d)
    \/ Room /\ ExtRemove("/a")
    \/ Stat("/a")
    \/ OpenClassify("/a")
    \/ OpenFinish

SpecRace ==
    InitWatched({BaseWithFile}, 0..MaxCacheTime, {"errno"}, {"/a"}) /\ [][NextRace]_vars

\* ------------------------------------------------------------ what the claims speak of
\* the layer answers a stat of name with an entry
LayerHas(n) == ~Down("layer") /\ layer[n].kind # "none"
\* the entry is inside the freshness window, or the window is unlimited
Fresh(n) == LayerHas(n) /\ (cacheTime = 0 \/ ~(layer[n].mtime + cacheTime < now))
\* the window is not zero and has elapsed
Elapsed(n) == LayerHas(n) /\ cacheTime # 0 /\ layer[n].mtime + cacheTime < now
BaseStatFails(n) == Down("base") \/ base[n].kind = "none"
\* the positions of calls that go to the base, promotion included
BaseCalls(calls) == {i \in 1..Len(calls) : calls[i][1] = "base" \/ calls[i] = Promote}
Called(calls, c) == \E i \in 1..Len(calls) : calls[i] = c
IsLayerOpen(c) == c[1] = "layer" /\ c[2] \in {"Open", "OpenFile"}
\* the layer is opened, and only after the promotion
PromotedBeforeOpen(calls) ==
    \E i \in 1..Len(calls) :
        /\ calls[i] = Promote
        /\ \E j \in (i+1)..Len(calls) : IsLayerOpen(calls[j])
        /\ \A j \in 1..i : ~IsLayerOpen(calls[j])
ReadOnlyCall == ret.op = "Open" \/ (ret.op = "OpenFile" /\ ret.arg \cap WriteFlags = {})

\* C1: a fresh layer entry is classified Hit with the layer's metadata, Stat
\* returns the layer's metadata, and neither calls the base, whatever the base holds.
C1_FreshServedFromLayer ==
    /\ \A n \in Names : Fresh(n) =>
          cacheStatus(n) = [st |-> "cacheHit", fi |-> FileInfo(layer[n]), err |-> Nil,
                            calls |-> <<LStat>>]
    /\ (ret.op = "Stat" /\ Fresh(ret.name)) =>
          /\ ret.err = Nil
          /\ ret.st = "cacheHit"
          /\ ret.fi = FileInfo(layer[ret.name])
          /\ BaseCalls(ret.calls) = {}

\* a Stat of a fresh entry, window not zero, while the base holds a newer file
C1_Witness ==
    /\ ret.op = "Stat" /\ Fresh(ret.name) /\ cacheTime > 0
    /\ base[ret.name].kind = "file" /\ base[ret.name].mtime > layer[ret.name].mtime

\* C2: with a layer entry, a non-zero window and the window elapsed, the state is
\* Local with the layer's metadata when the base stat fails, Stale with the base's
\* metadata when the base is strictly newer, Hit with the layer's metadata
\* otherwise; window 1h, layer T, base T+2h, now T+1h+1s is Stale.
C2_Expected(n) ==
    IF BaseStatFails(n) THEN
        [st |-> "cacheLocal", fi |-> FileInfo(layer[n]), err |-> Nil, calls |-> <<LStat, BStat>>]
    ELSE IF base[n].mtime > layer[n].mtime THEN
        [st |-> "cacheStale", fi |-> FileInfo(base[n]), err |-> Nil, calls |-> <<LStat, BStat>>]
    ELSE
        [st |-> "cacheHit", fi |-> FileInfo(layer[n]), err |-> Nil, calls |-> <<LStat, BStat>>]

C2_ElapsedClassification ==
    /\ \A n \in Names : Elapsed(n) => cacheStatus(n) = C2_Expected(n)
    /\ (ret.op = "Stat" /\ Elapsed(ret.name)) => ret.st = C2_Expected(ret.name).st
    /\ classify(3600, 3601, [err |-> Nil, fi |-> FileInfo(File(1, 0, 0))],
                [err |-> Nil, fi |-> FileInfo(File(2, 7200, 0))]).st = "cacheStale"

\* a Stat that found the entry expired and the base newer
C2_Witness == ret.op = "Stat" /\ Elapsed(ret.name) /\ ret.st = "cacheStale"

\* C3: a layer stat that fails with a not-found error, bare errno or wrapped in a
\* path error, is classified Miss with no metadata and no error, and the verb goes
\* on along its Miss branch.
C3_NotFoundIsMiss ==
    /\ \A n \in Names : (~Down("layer") /\ layer[n].kind = "none") =>
          cacheStatus(n) = [st |-> "cacheMiss", fi |-> NilFi, err |-> Nil, calls |-> <<LStat>>]
    /\ (ret.op = "Stat" /\ ~Down("layer") /\ layer[ret.name].kind = "none") =>
          Called(ret.calls, BStat)

\* C4 as claimed: Stat on a Stale path promotes, returns the base's modification
\* time, and leaves the layer entry with the base's modification time.
C4_StatPromotesStale ==
    (ret.op = "Stat" /\ ret.st = "cacheStale") =>
        /\ Called(ret.calls, Promote)
        /\ ret.fi.modTime = base[ret.name].mtime
        /\ layer[ret.name].mtime = base[ret.name].mtime

\* C4 as amended: Stat on a Stale path returns the base's metadata as cacheStatus
\* gave it and does not promote: the layer entry keeps its older modification time.
C4_StatStaleNoPromotion ==
    (ret.op = "Stat" /\ ret.st = "cacheStale") =>
        /\ ret.err = Nil
        /\ ret.fi = FileInfo(base[ret.name])
        /\ ret.calls = <<LStat, BStat>>
        /\ layer[ret.name].kind # "none"
        /\ layer[ret.name].mtime < base[ret.name].mtime

\* a Stat classified Stale, with content in the base that the layer lacks
C4_Witness ==
    /\ ret.op = "Stat" /\ ret.st = "cacheStale"
    /\ layer[ret.name].data # base[ret.name].data

\* C5: Open and read-only OpenFile of a non-directory path classified Stale or
\* Miss promote before the layer is opened, so that a returned handle is on a layer
\* file with the base's content and modification time; when the promotion fails
\* the call returns an error and no handle.
C5_OpenPromotesFirst ==
    (ReadOnlyCall /\ ret.st \in StaleOrMiss /\ base[ret.name].kind # "dir") =>
        IF ret.err = Nil THEN
            /\ ret.h = <<"layer">>
            /\ PromotedBeforeOpen(ret.calls)
            /\ layer[ret.name].kind = "file"
            /\ layer[ret.name].data = base[ret.name].data
            /\ layer[ret.name].mtime = base[ret.name].mtime
        ELSE ret.h = NoHandle

\* an Open of a stale file that gave a handle
C5_Witness == ret.op = "Open" /\ ret.st = "cacheStale" /\ ret.err = Nil

\* C6 as claimed: with the base unreachable and the path in the layer, Stat, Open,
\* read-only OpenFile, Chmod and Chtimes all succeed, inside or outside the window.
C6_OfflineVerbsSucceed ==
    (/\ ret.op \in {"Stat", "Chmod", "Chtimes"} \/ ReadOnlyCall
     /\ fault = "baseDown"
     /\ layer[ret.name].kind # "none") => ret.err = Nil

\* C6 as amended: with the base unreachable and the path in the layer, Stat, Open
\* and read-only OpenFile succeed on layer data alone inside or outside the window;
\* Chmod and Chtimes succeed, on the layer alone, only once a non-zero window has
\* elapsed (Local); before that (Hit) they return the base's error and do not call
\* the layer.
C6_OfflineReadsSucceed ==
    (ret.name \in Names /\ fault = "baseDown" /\ layer[ret.name].kind # "none") =>
        /\ ret.op = "Stat" => ret.err = Nil /\ ret.fi = FileInfo(layer[ret.name])
        /\ ReadOnlyCall =>
              ret.err = Nil /\ ret.h \in {<<"layer">>, <<"UnionFile", "nil", "layer">>}
        /\ ret.op = "Chmod" =>
              IF Elapsed(ret.name)
              THEN ret.err = Nil /\ layer[ret.name].mode \in ret.arg
                   /\ ret.calls = <<LStat, BStat, <<"layer", "Chmod">> >>
              ELSE ret.err = Errno("EIO") /\ ~Called(ret.calls, <<"layer", "Chmod">>)
        /\ ret.op = "Chtimes" =>
              /\ ret.st \in {"cacheLocal", "cacheHit"}
              /\ ret.st = "cacheLocal" =>
                    ret.err = Nil /\ layer[ret.name].mtime \in ret.arg
                    /\ ret.calls = <<LStat, BStat, <<"layer", "Chtimes">> >>
              /\ ret.st = "cacheHit" =>
                    ret.err = Errno("EIO") /\ ~Called(ret.calls, <<"layer", "Chtimes">>)

\* a Chmod that succeeded on the layer alone while the base was unreachable
C6_Witness ==
    /\ ret.op = "Chmod" /\ fault = "baseDown" /\ ret.st = "cacheLocal" /\ ret.err = Nil
\* C7: a write-class OpenFile on a path classified Miss, a path in neither store
\* included, succeeds with a fan-out handle, and once the handle is closed the path
\* is a file of both stores with the same content.  Success is asked here only of
\* an open with O_CREATE, which is what can succeed on a path in neither store.
C7_WriteOpenOnMiss ==
    /\ (ret.op = "OpenFile" /\ ret.arg \cap WriteFlags # {} /\ ret.st = "cacheMiss"
        /\ "O_CREATE" \in ret.arg) =>
          ret.err = Nil /\ ret.h = <<"UnionFile", "base", "layer">>
    /\ ret.op = "UnionFile.Close" =>
          /\ base[ret.name].kind = "file" /\ layer[ret.name].kind = "file"
          /\ base[ret.name].data = layer[ret.name].data

\* C8: when Mkdir or MkdirAll fails on base the call returns the base's error and
\* the layer is as it was; when it succeeds on base, MkdirAll is called on the layer,
\* which then holds the directory and its parents.
C8_MkdirPost(b, n) ==
    IF b.err # Nil THEN
        ret'.err = b.err /\ layer' = layer /\ base' = base
        /\ ~Called(ret'.calls, <<"layer", "MkdirAll">>)
    ELSE
        /\ base' = b.fs
        /\ ret'.calls[Len(ret'.calls)] = <<"layer", "MkdirAll">>
        /\ WriteFault("layer") = Nil =>
              /\ ret'.err = Nil
              /\ layer'[n].kind = "dir"
              /\ IsDirAt(layer', Parent(n))
        /\ WriteFault("layer") # Nil => ret'.err = WriteFault("layer") /\ layer' = layer

C8_MkdirBaseFirst ==
    [][/\ ret'.op = "Mkdir" => C8_MkdirPost(FsMkdir(base, "base", ret'.name), ret'.name)
       /\ ret'.op = "MkdirAll" => C8_MkdirPost(FsMkdirAll(base, "base", ret'.name), ret'.name)
      ]_vars

\* a Mkdir of "/d/e" that had to make "/d" in the layer as well
C8_Witness ==
    /\ ret.op = "Mkdir" /\ ret.name = "/d/e" /\ ret.err = Nil
    /\ layer["/d"].kind = "dir" /\ layer["/d"].mtime > base["/d"].mtime

\* C9: once the watcher runs, a write by another process to a base file that the
\* layer holds is followed, eventually, by the watcher handling a write event for
\* it and promoting it again.
C9_WatcherRepromotes ==
    \A n \in FileNames :
        [](  (wpc = "idle" /\ ret.op = "ExtWrite" /\ ret.name = n /\ layer[n].kind = "file")
          => <>(ret.op = "monitor.event" /\ ret.name = n /\ Called(ret.calls, Promote)))

\* C10: with cache time 0, a verb on a file that the layer holds makes no read of
\* the base: no base.Stat, no base.Open and no promotion.
BaseReads(calls) ==
    {i \in 1..Len(calls) : calls[i] \in {BStat, <<"base", "Open">>, Promote}}
FsVerbs == {"Stat", "Open", "OpenFile", "Chmod", "Chtimes", "Rename", "Remove",
            "monitor.event"}

ClassifyingVerbs == {"Chtimes", "Chmod", "Rename", "Remove", "RemoveAll"}
IsWriteCall(r) ==
    \/ r.op \in ClassifyingVerbs \cup {"Mkdir", "MkdirAll", "Create"}
    \/ r.op = "OpenFile" /\ r.arg \cap WriteFlags # {}
LayerCallOf(op) == IF op = "Mkdir" THEN <<"layer", "MkdirAll">> ELSE <<"layer", op>>
\* what the base answers to the verb of the call r, in the state the call started in
BaseAnswer(r) ==
    CASE r.op = "Chtimes" -> FsChtimes(base, "base", r.name, CHOOSE t \in r.arg : TRUE)
      [] r.op = "Chmod" -> FsChmod(base, "base", r.name, CHOOSE m \in r.arg : TRUE)
      [] r.op = "Rename" -> FsRename(base, "base", r.name, CHOOSE n \in r.arg : TRUE)
      [] r.op = "Remove" -> FsRemove(base, "base", r.name)
      [] r.op = "RemoveAll" -> FsRemoveAll(base, "base", r.name)
      [] r.op = "Mkdir" -> FsMkdir(base, "base", r.name)
      [] r.op = "MkdirAll" -> FsMkdirAll(base, "base", r.name)
      [] r.op = "Create" -> FsCreate(base, "base", r.name)
      [] r.op = "OpenFile" -> FsOpenFile(base, "base", r.name, r.arg)
\* the base call of the verb comes before the layer call and the base accepted it
BaseFirst(r) ==
    /\ BaseAnswer(r).err = Nil
    /\ \E i \in 1..Len(r.calls) :
          /\ r.calls[i] = <<"base", r.op>>
          /\ \E j \in (i+1)..Len(r.calls) : r.calls[j] = LayerCallOf(r.op)
          /\ \A j \in 1..i : r.calls[j] # LayerCallOf(r.op)

BaseRefused(r) ==
    /\ r.op \in ClassifyingVerbs
    /\ Called(r.calls, <<"base", r.op>>)
    /\ BaseAnswer(r).err # Nil

\* C12 as claimed: when the base call of Chtimes, Chmod, Rename, Remove or
\* RemoveAll fails, the verb returns the base's error and the layer is exactly as
\* it was before the verb.
C12_BaseErrorLeavesLayer ==
    [][BaseRefused(ret') => ret'.err = BaseAnswer(ret').err /\ layer' = layer]_vars

\* C12 as amended: when the base call fails, the verb returns the base's error
\* and is not applied to the layer; the layer is as it was on Hit and in Remove
\* and RemoveAll, and holds the promoted file, and no other change, when Chtimes,
\* Chmod or Rename found the path Stale or Miss.
C12_BaseErrorSkipsLayerVerb ==
    [][BaseRefused(ret') =>
          /\ ret'.err = BaseAnswer(ret').err
          /\ ~Called(ret'.calls, LayerCallOf(ret'.op))
          /\ base' = base
          /\ IF ret'.op \in {"Chtimes", "Chmod", "Rename"} /\ ret'.st \in StaleOrMiss
             THEN /\ Called(ret'.calls, Promote)
                  /\ layer' = copyToLayerOf(base, layer, ret'.name).layer
                  /\ layer'[ret'.name].data = base[ret'.name].data
                  /\ layer'[ret'.name].mtime = base[ret'.name].mtime
             ELSE layer' = layer]_vars

\* a Chtimes that promoted a stale file and was then refused by the base
C12_Witness ==
    /\ ret.op = "Chtimes" /\ ret.st = "cacheStale" /\ ret.err = Errno("EROFS")
    /\ ret.calls = <<LStat, BStat, Promote, <<"base", "Chtimes">> >>
    /\ layer[ret.name].mtime = base[ret.name].mtime

\* ------------------------------------------------------------ C13
\* the calls of a verb that classified without error, by the policy of the claim:
\* Local: the layer alone; Hit: base, then layer; Stale or Miss: promotion, then
\* base, then layer, each step made only if the one before it succeeded
PolicyCalls(r, promotes) ==
    LET cs == cacheStatus(r.name)
        cp == copyToLayerOf(base, layer, r.name)
        op == r.op
    IN  IF cs.st = "cacheLocal" THEN cs.calls \o << <<"layer", op>> >>
        ELSE IF cs.st \in StaleOrMiss /\ promotes THEN
            IF cp.err # Nil THEN cs.calls \o <<Promote>>
            ELSE IF BaseAnswer(r).err # Nil THEN cs.calls \o <<Promote, <<"base", op>> >>
            ELSE cs.calls \o <<Promote, <<"base", op>>, <<"layer", op>> >>
        ELSE IF BaseAnswer(r).err # Nil THEN cs.calls \o << <<"base", op>> >>
        ELSE cs.calls \o << <<"base", op>>, <<"layer", op>> >>

\* C13 as claimed: Chtimes, Chmod, Rename, Remove and RemoveAll all follow the
\* one policy, promotion on Stale and Miss included.
C13_OnePolicy ==
    [][(ret'.op \in ClassifyingVerbs /\ cacheStatus(ret'.name).err = Nil) =>
          ret'.calls = PolicyCalls(ret', TRUE)]_vars

\* C13 as amended: Chtimes, Chmod and Rename follow that policy; Remove and
\* RemoveAll follow it on Local and Hit, and on Stale and Miss they do as on Hit:
\* no promotion, the verb on the base, then on the layer.
C13_PolicyButRemove ==
    [][(ret'.op \in ClassifyingVerbs /\ cacheStatus(ret'.name).err = Nil) =>
          /\ ret'.st = cacheStatus(ret'.name).st
          /\ ret'.calls = PolicyCalls(ret', ret'.op \in {"Chtimes", "Chmod", "Rename"})
          /\ ret'.st = "cacheLocal" => base' = base
          /\ ~Called(ret'.calls, <<"base", ret'.op>>) => base' = base
          /\ ~Called(ret'.calls, Promote) /\ ~Called(ret'.calls, <<"layer", ret'.op>>)
                => layer' = layer]_vars

\* a Remove of a stale file: removed from both stores, never promoted
C13_Witness ==
    /\ ret.op = "Remove" /\ ret.st = "cacheStale" /\ ret.err = Nil
    /\ ret.calls = <<LStat, BStat, <<"base", "Remove">>, <<"layer", "Remove">> >>

\* ------------------------------------------------------------ C14
IsWriteOpen(r) == r.op = "Create" \/ (r.op = "OpenFile" /\ r.arg \cap WriteFlags # {})
\* the name the handler gives the base handle it opened
BaseHandleOf(op) == IF op = "Create" THEN "bfh" ELSE "bfi"
\* the handles the call r opened and did not close: the base's, when the base open
\* was made and succeeded and no Close of it followed; none of the layer's when the
\* call failed after the base open, since the layer's open is then what failed
LeftOpen(r) ==
    IF Called(r.calls, <<"base", r.op>>) /\ BaseAnswer(r).err = Nil
       /\ ~Called(r.calls, <<BaseHandleOf(r.op), "Close">>)
    THEN {BaseHandleOf(r.op)} ELSE {}

\* C14: when Create or a write-class OpenFile returns an error it returns no
\* handle and leaves none open: after a failed base open the layer is not opened;
\* after a failed layer open the base handle is closed, last of all, and the base
\* keeps what the base open did to it.
C14_NoHandleLeftOpen ==
    [][(IsWriteOpen(ret') /\ ret'.err # Nil) =>
          /\ ret'.h = NoHandle
          /\ fh' = fh
          /\ LeftOpen(ret') = {}
          /\ IF ~Called(ret'.calls, <<"base", ret'.op>>) THEN
                 base' = base /\ ~Called(ret'.calls, <<"layer", ret'.op>>)
             ELSE IF BaseAnswer(ret').err # Nil THEN
                 /\ ret'.err = BaseAnswer(ret').err
                 /\ base' = base
                 /\ ~Called(ret'.calls, <<"layer", ret'.op>>)
             ELSE
                 /\ Len(ret'.calls) >= 3
                 /\ SubSeq(ret'.calls, Len(ret'.calls) - 2, Len(ret'.calls)) =
                       << <<"base", ret'.op>>, <<"layer", ret'.op>>,
                          <<BaseHandleOf(ret'.op), "Close">> >>
                 /\ base' = BaseAnswer(ret').fs]_vars

\* a Create that made the file in the base and then failed in the layer
C14_Witness ==
    /\ ret.op = "Create" /\ ret.err # Nil
    /\ Called(ret.calls, <<"bfh", "Close">>)
    /\ base[ret.name].kind = "file" /\ layer[ret.name].kind = "none"

\* ------------------------------------------------------------ C15
\* the last Open was of a directory, in the state st
DirOpen(st) ==
    /\ ret.op = "Open" /\ ret.st = st
    /\ IF st = "cacheHit" THEN layer[ret.name].kind = "dir"
       ELSE IF st = "cacheStale" THEN base[ret.name].kind = "dir"
       ELSE cacheStatus(ret.name).err = Nil /\ base[ret.name].kind = "dir" /\ ~Down("base")
\* the fan-out handle over the opens that succeeded, or the layer's error when
\* neither did
FanOut(name) ==
    LET bo == FsOpen(base, "base", name)
        lo == FsOpen(layer, "layer", name)
    IN  IF bo.err # Nil /\ lo.err # Nil THEN [err |-> lo.err, h |-> NoHandle]
        ELSE [err |-> Nil,
              h |-> <<"UnionFile", IF bo.err = Nil THEN "base" ELSE "nil",
                                   IF lo.err = Nil THEN "layer" ELSE "nil">>]

\* C15 as claimed: Open of a directory classified Hit, Stale or Miss does not
\* promote, opens both stores and returns the fan-out handle unless both opens
\* fail.
C15_DirOpenFansOut ==
    \A st \in {"cacheHit", "cacheStale", "cacheMiss"} :
        DirOpen(st) =>
            /\ ~Called(ret.calls, Promote)
            /\ ret.err = FanOut(ret.name).err
            /\ ret.h = FanOut(ret.name).h

\* C15 as amended: Open of a directory never promotes; classified Hit or Stale it
\* opens the base and then the layer and returns the fan-out handle unless both
\* opens fail, when it returns the layer's error; classified Miss it opens the base
\* alone and returns the base's handle, or the base's error.
C15_DirOpenHitStaleFansOut ==
    /\ \A st \in {"cacheHit", "cacheStale"} :
          DirOpen(st) =>
              /\ ~Called(ret.calls, Promote)
              /\ SubSeq(ret.calls, Len(ret.calls) - 1, Len(ret.calls)) =
                    << <<"base", "Open">>, <<"layer", "Open">> >>
              /\ ret.err = FanOut(ret.name).err
              /\ ret.h = FanOut(ret.name).h
    /\ DirOpen("cacheMiss") =>
          /\ ret.calls = <<LStat, BStat, <<"base", "Open">> >>
          /\ ret.err = FsOpen(base, "base", ret.name).err
          /\ ret.h = IF ret.err = Nil THEN <<"base">> ELSE NoHandle
          /\ layer[ret.name].kind = "none"

\* an Open of a cached directory that another process removed from the base: the
\* handle is over the layer's directory alone
C15_Witness ==
    /\ DirOpen("cacheHit") /\ ret.err = Nil /\ ret.h = <<"UnionFile", "nil", "layer">>

\* ------------------------------------------------------------ C16
\* the path of a classification is a directory: the answer of the store whose
\* metadata the state carries
PathIsDir(st, n) == IF st = "cacheStale" THEN base[n].kind = "dir" ELSE layer[n].kind = "dir"
\* the handler has to promote the path of the event ev again
MustRepromote(ev) ==
    /\ ev.Write
    /\ cacheStatus(ev.Name).err = Nil
    /\ cacheStatus(ev.Name).st \in {"cacheLocal", "cacheStale", "cacheHit"}
    /\ ~PathIsDir(cacheStatus(ev.Name).st, ev.Name)

\* C16: the handler of monitor promotes the path of an event again exactly when
\* the event is a write, the state is Local, Stale or Hit and the path is not a
\* directory; otherwise it leaves the layer as it is; and it never gives the layer
\* a path the layer did not hold.
C16_WatcherRepromotesOnlyCached ==
    [][ret'.op = "monitor.event" =>
          /\ events # <<>>
          /\ ret'.name = Head(events).Name
          /\ Called(ret'.calls, Promote) <=> MustRepromote(Head(events))
          /\ IF MustRepromote(Head(events))
             THEN layer' = copyToLayerOf(base, layer, ret'.name).layer
             ELSE layer' = layer
          /\ \A n \in Names : layer[n].kind = "none" => layer'[n].kind = "none"]_vars

\* the handler took a write event of a cached file inside its window and gave the
\* layer the content the other process wrote
C16_Witness ==
    /\ ret.op = "monitor.event" /\ ret.st = "cacheHit" /\ ret.err = Nil
    /\ Called(ret.calls, Promote)
    /\ layer[ret.name].data = MaxData

\* ------------------------------------------------------------ C17
\* C17: once NewWatcher has succeeded the loop of monitor never ends: it is Idle
\* after every event, a failed one and one of the error stream included; only a
\* failed NewWatcher stops it; events are taken one at a time, the oldest first,
\* none is lost, and the oldest undelivered event is eventually handled.
C17_WatcherLoopNeverEnds ==
    /\ [][wpc = "idle" => wpc' = "idle"]_vars
    /\ [][(wpc' = "dead" /\ wpc # "dead") => (wpc = "start" /\ ret'.op = "monitor")]_vars
    /\ [][ret'.op = "monitor.event" =>
            events # <<>> /\ ret'.name = Head(events).Name /\ events' = Tail(events)]_vars
    /\ [][ret'.op # "monitor.event" =>
            events' = events \/ (Len(events') = Len(events) + 1
                                 /\ SubSeq(events', 1, Len(events)) = events)]_vars
    /\ \A n \in FileNames :
          (wpc = "idle" /\ events # <<>> /\ Head(events).Name = n)
              ~> (ret.op = "monitor.event" /\ ret.name = n)

\* the handling of an event failed and the goroutine is Idle with the next event
\* waiting
C17_Witness ==
    /\ ret.op = "monitor.event" /\ ret.err # Nil
    /\ wpc = "idle" /\ events # <<>>

\* ------------------------------------------------------------ C18
\* the layer's file of n has the content and the modification time of the base's
SameAsBase(l, b, n) ==
    /\ l[n].kind = "file" /\ b[n].kind = "file"
    /\ l[n].data = b[n].data /\ l[n].mtime = b[n].mtime
\* the call that just returned promoted its path and the promotion succeeded
Promoted(r) ==
    \/ r.op = "monitor.event" /\ Called(r.calls, Promote) /\ r.err = Nil
    \/ r.op = "Open" /\ Called(r.calls, <<"layer", "Open">>) /\ Called(r.calls, Promote)

\* C18: with a foreground Stat or Open and the handler of monitor interleaved
\* between their cacheStatus and their promotion, every change of a layer file
\* gives it the content and modification time the base holds at that moment; a
\* promotion that succeeds leaves the layer file equal to the base's, whichever
\* goroutine made it and whatever the other had classified; and once equal they
\* stay equal through every step in which the base does not change.
C18_LastPromotionWins ==
    [][\A n \in FileNames :
          /\ layer'[n] # layer[n] => SameAsBase(layer', base, n)
          /\ (Promoted(ret') /\ ret'.name = n) => SameAsBase(layer', base', n)
          /\ (SameAsBase(layer, base, n) /\ base'[n] = base[n])
                => SameAsBase(layer', base', n)]_vars

\* the foreground Open promoted the file while the handler of monitor stood
\* between its cacheStatus, which had found the file stale, and its own promotion
C18_Witness ==
    /\ ret.op = "Open" /\ Promoted(ret)
    /\ pend.w # <<>> /\ pend.w[2].st = "cacheStale"
    /\ SameAsBase(layer, base, ret.name)

\* ------------------------------------------------------------ C19
\* the layer's stat of n fails, and not for want of the path
LayerStatBroken(n) ==
    /\ FsStat(layer, "layer", n).err # Nil
    /\ FsStat(layer, "layer", n).err[2] # "ENOENT"

\* C19: when the layer's stat fails with an error that is not of the not-found
\* class, cacheStatus returns that error, and Stat, Chtimes, Chmod, Open and
\* OpenFile return it without a call to the base.
C19_LayerErrorReturned ==
    /\ \A n \in Names : LayerStatBroken(n) =>
          cacheStatus(n).err = FsStat(layer, "layer", n).err
    /\ (ret.op \in {"Stat", "Chtimes", "Chmod", "Open", "OpenFile"}
        /\ LayerStatBroken(ret.name)) =>
          /\ ret.err = FsStat(layer, "layer", ret.name).err
          /\ BaseCalls(ret.calls) = {}

\* ------------------------------------------------------------ C20
\* the calls that only read: Stat, Open, the read-only OpenFile and every step of
\* the goroutine of monitor
IsReadStep(r) ==
    \/ r.op \in {"Stat", "Open", "monitor", "monitor.event", "monitor.error"}
    \/ r.op = "OpenFile" /\ r.arg \cap WriteFlags = {}
\* the steps of other processes on the base
IsOutside(r) == r.op \in {"ExtWrite", "ExtRemove", "ExtMkdir", "ExtTouchDir"}

\* C20: Stat, Open, read-only OpenFile, the promotion they make and every step of
\* the goroutine of monitor leave the base as it is; Stat leaves the layer as it
\* is too; through the union the base changes only in a mutating verb or a write
\* through a fan-out handle.
C20_ReadsLeaveBase ==
    [][/\ IsReadStep(ret') => base' = base
       /\ ret'.op = "Stat" => layer' = layer
       /\ (base' # base /\ ~IsOutside(ret')) =>
             (IsWriteCall(ret') \/ ret'.op = "UnionFile.Write")]_vars

\* a Stat of a file that only the base holds: answered from the base, the layer
\* still without it
C20_Witness ==
    /\ ret.op = "Stat" /\ ret.st = "cacheMiss" /\ ret.err = Nil
    /\ ret.fi = FileInfo(base[ret.name])
    /\ layer[ret.name].kind = "none"
====
